---------------------------- MODULE Spec2Model ----------------------------
(***************************************************************************)
(* A model of graph.py: the type resolver, the file extractor, the folder  *)
(* aggregator, the inconsistency detector and the driver that renders the  *)
(* report and the diagrams.                                                *)
(*                                                                         *)
(* Python strings that hold type descriptors are modelled as sequences of  *)
(* tokens: an identifier is one token, and each bracket "[" or "]" is one   *)
(* token.  Identifiers never contain a bracket, so splitting on "[" and    *)
(* stripping "]" act on tokens exactly as str.split and str.rstrip act on  *)
(* the characters.  The syntax tree follows Python >= 3.9, where the slice *)
(* of an ast.Subscript is the inner expression itself.                     *)
(***************************************************************************)
EXTENDS Naturals, Sequences, FiniteSets, TLC

VARIABLES
    \* --- the type resolver / normalizer exercised on one annotation
    t_pc, annotation, descriptor, normalized,
    \* --- the file extractor exercised on one file
    x_pc, x_file, x_result,
    \* --- one run of the __main__ block
    pc, folder, i,
    all_classes, all_base_models, all_relationships, class_to_file_map,
    inconsistent_attributes, inconsistency_summary,
    artifacts, stdout, error

type_vars == <<t_pc, annotation, descriptor, normalized>>
extract_vars == <<x_pc, x_file, x_result>>
run_vars == <<pc, folder, i, all_classes, all_base_models, all_relationships,
              class_to_file_map, inconsistent_attributes,
              inconsistency_summary, artifacts, stdout, error>>
vars == <<type_vars, extract_vars, run_vars>>

---------------------------------------------------------------------------
(* Bounds of the model. *)

\* nesting depth of subscripts in the annotations drawn for the resolver
MaxDepth == 2
\* top-level classes of the file drawn for the extractor
MaxClasses == 2
\* annotated fields, over all its classes, of the file drawn for the extractor
MaxFields == 2
\* files of the folder a run walks
MaxFiles == 2

---------------------------------------------------------------------------
(* Python str operations on token sequences. *)

\* `sub in s` for a one-character sub
Contains(s, tok) == \E k \in 1..Len(s) : s[k] = tok

\* s.split(sep): the segments of s between the occurrences of sep
RECURSIVE Split(_, _)
Split(s, sep) ==
    IF ~Contains(s, sep) THEN <<s>>
    ELSE LET k == CHOOSE j \in 1..Len(s) :
                      s[j] = sep /\ \A m \in 1..(j-1) : s[m] # sep
         IN  <<SubSeq(s, 1, k-1)>> \o Split(SubSeq(s, k+1, Len(s)), sep)

\* s.rstrip(ch)
RECURSIVE RStrip(_, _)
RStrip(s, ch) ==
    IF Len(s) > 0 /\ s[Len(s)] = ch THEN RStrip(SubSeq(s, 1, Len(s)-1), ch)
    ELSE s

---------------------------------------------------------------------------
(* Annotation nodes (ast.Name, ast.Attribute, ast.Subscript, anything else) *)

TypeNames == {"int", "Foo"}
Containers == {"List", "Optional", "Dict"}

Name(n) == [kind |-> "Name", id |-> n]
Attribute(n) == [kind |-> "Attribute", attr |-> n]
Subscript(v, s) == [kind |-> "Subscript", value |-> v, slice |-> s]
\* a node of any other class, e.g. the ast.Tuple of Dict[str, int]
OtherNode == [kind |-> "Tuple"]

LeafAnnotations ==
    {Name(n) : n \in TypeNames} \cup {Attribute(n) : n \in TypeNames}
        \cup {OtherNode}

\* what stands before the bracket: a recognised container, another bare
\* name, or a qualified name such as typing.List
SubscriptValues ==
    {Name(c) : c \in Containers} \cup {Name("Tuple"), Attribute("List")}

RECURSIVE Annotations(_)
Annotations(d) ==
    IF d = 0 THEN LeafAnnotations
    ELSE LeafAnnotations \cup
         {Subscript(v, s) : v \in SubscriptValues, s \in Annotations(d-1)}

---------------------------------------------------------------------------
(* resolve_type and normalize_type *)

\* resolve_type with the ComplexType fall-through lost: a subscript it does
\* not handle runs on to the last return
RECURSIVE resolve_type_fallthrough(_)
resolve_type_fallthrough(a) ==
    IF a.kind = "Name" THEN <<a.id>>
    ELSE IF a.kind = "Subscript"
            /\ a.value.kind = "Name" /\ a.value.id \in Containers
            /\ a.slice.kind \in {"Name", "Subscript", "Attribute"}
    THEN IF a.slice.kind = "Name"
             THEN <<a.value.id, "[", a.slice.id, "]">>
         ELSE IF a.slice.kind = "Subscript"
             THEN <<a.value.id, "[">> \o resolve_type_fallthrough(a.slice)
                      \o <<"]">>
         ELSE <<a.value.id, "[", a.slice.attr, "]">>
    ELSE IF a.kind = "Attribute" THEN <<a.attr>>
    ELSE <<"Unknown">>

RECURSIVE resolve_type(_)
resolve_type(a) ==
    IF a.kind = "Name" THEN <<a.id>>
    ELSE IF a.kind = "Subscript" THEN
        IF a.value.kind = "Name" /\ a.value.id \in Containers
        THEN IF a.slice.kind = "Name"
                 THEN <<a.value.id, "[", a.slice.id, "]">>
             ELSE IF a.slice.kind = "Subscript"
                 THEN <<a.value.id, "[">> \o resolve_type(a.slice) \o <<"]">>
             ELSE IF a.slice.kind = "Attribute"
                 THEN <<a.value.id, "[", a.slice.attr, "]">>
             ELSE <<"ComplexType">>
        ELSE <<"ComplexType">>
    ELSE IF a.kind = "Attribute" THEN <<a.attr>>
    ELSE <<"Unknown">>

normalize_type(attr_type) ==
    IF Contains(attr_type, "[")
    THEN RStrip(Split(attr_type, "[")[2], "]")
    ELSE attr_type

---------------------------------------------------------------------------
(* Python dicts keep insertion order: a dict is a sequence of entries with *)
(* distinct keys.                                                          *)

DictKeys(d) == {d[k].key : k \in 1..Len(d)}

DictGet(d, key) == d[CHOOSE k \in 1..Len(d) : d[k].key = key].val

\* d[key] = val : an existing key keeps its position, a new key goes last
DictSet(d, key, val) ==
    IF key \in DictKeys(d)
    THEN [k \in 1..Len(d) |->
             IF d[k].key = key THEN [key |-> key, val |-> val] ELSE d[k]]
    ELSE Append(d, [key |-> key, val |-> val])

\* a merge that keeps the entry already present (setdefault for update)
RECURSIVE DictUpdateKeepFirst(_, _)
DictUpdateKeepFirst(d, e) ==
    IF e = <<>> THEN d
    ELSE DictUpdateKeepFirst(
             IF Head(e).key \in DictKeys(d) THEN d
             ELSE Append(d, Head(e)), Tail(e))

\* d.update(e)
RECURSIVE DictUpdate(_, _)
DictUpdate(d, e) ==
    IF e = <<>> THEN d
    ELSE DictUpdate(DictSet(d, Head(e).key, Head(e).val), Tail(e))

---------------------------------------------------------------------------
(* Syntax trees of source files. *)

ClassDef(n, bases, body) ==
    [kind |-> "ClassDef", name |-> n, bases |-> bases, body |-> body]
\* name: annotation  (an ast.AnnAssign whose target is an ast.Name)
AnnAssign(n, a) ==
    [kind |-> "AnnAssign", target |-> Name(n), annotation |-> a]

\* {node.name: node for node in tree.body if isinstance(node, ast.ClassDef)}
RECURSIVE class_definitions(_)
class_definitions(body) ==
    IF body = <<>> THEN <<>>
    ELSE LET rest == class_definitions(SubSeq(body, 1, Len(body)-1))
             node == body[Len(body)]
         IN  IF node.kind = "ClassDef" THEN DictSet(rest, node.name, node)
             ELSE rest

\* the bases loop: BaseModel or <module>.BaseModel among the direct bases
is_base_model(node) ==
    \E k \in 1..Len(node.bases) :
        \/ node.bases[k].kind = "Name" /\ node.bases[k].id = "BaseModel"
        \/ node.bases[k].kind = "Attribute" /\ node.bases[k].attr = "BaseModel"

\* None and the empty string are both falsy at `if inner_model:`; <<>>
\* stands for either
inner_model(attr_type, defs) ==
    IF Contains(attr_type, "[")
    THEN LET parts == Split(attr_type, "[")
         IN  RStrip(parts[Len(parts)], "]")
    ELSE IF Len(attr_type) = 1 /\ attr_type[1] \in DictKeys(defs)
    THEN attr_type
    ELSE <<>>

\* the loop over node.body: the attributes of the class and the nested
\* relationships it appends, in order
RECURSIVE scan_body(_, _, _)
scan_body(class_name, body, defs) ==
    IF body = <<>> THEN [attributes |-> <<>>, nested |-> <<>>]
    ELSE LET before == scan_body(class_name, SubSeq(body, 1, Len(body)-1), defs)
             child == body[Len(body)]
         IN  IF child.kind = "AnnAssign" /\ child.target.kind = "Name"
             THEN LET attr_name == child.target.id
                      attr_type == resolve_type(child.annotation)
                      inner == inner_model(attr_type, defs)
                  IN  IF inner # <<>>
                      THEN [attributes |-> Append(before.attributes,
                                               <<attr_name, attr_type, TRUE>>),
                            nested |-> Append(before.nested,
                                               <<class_name, attr_name, inner>>)]
                      ELSE [attributes |-> Append(before.attributes,
                                               <<attr_name, attr_type, FALSE>>),
                            nested |-> before.nested]
             ELSE before

\* the loop over class_definitions.items(), from its k-th entry on
RECURSIVE extract_loop(_, _, _, _)
extract_loop(file_path, defs, k, acc) ==
    IF k > Len(defs) THEN acc
    ELSE LET class_name == defs[k].key
             node == defs[k].val
             scanned == scan_body(class_name, node.body, defs)
         IN  extract_loop(file_path, defs, k + 1,
                 [classes |-> DictSet(acc.classes, class_name, scanned.attributes),
                  base_models |-> IF is_base_model(node)
                                  THEN acc.base_models \cup {class_name}
                                  ELSE acc.base_models,
                  nested_relationships |->
                      acc.nested_relationships \o scanned.nested,
                  file_to_class_map |->
                      DictSet(acc.file_to_class_map, class_name, file_path)])

\* the result of a call whose file parses into `tree`
extract_classes_with_nested_models(file_path, tree) ==
    extract_loop(file_path, class_definitions(tree), 1,
        [classes |-> <<>>, base_models |-> {}, nested_relationships |-> <<>>,
         file_to_class_map |-> <<>>])

---------------------------------------------------------------------------
(* find_inconsistent_attributes *)

\* d[key] of a defaultdict whose missing entries read as `default`
DictGetDefault(d, key, default) ==
    IF key \in DictKeys(d) THEN DictGet(d, key) ELSE default

\* the inner loop recording the types as written, not normalized
RECURSIVE index_attributes_raw(_, _, _, _)
index_attributes_raw(attributes, file, k, acc) ==
    IF k > Len(attributes) THEN acc
    ELSE LET attr_name == attributes[k][1]
         IN  index_attributes_raw(attributes, file, k + 1,
                 [attribute_types |->
                      DictSet(acc.attribute_types, attr_name,
                          DictGetDefault(acc.attribute_types, attr_name, {})
                              \cup {attributes[k][2]}),
                  attribute_files |->
                      DictSet(acc.attribute_files, attr_name,
                          Append(DictGetDefault(acc.attribute_files,
                                                attr_name, <<>>), file))])

\* the inner loop, over the attributes of one class from the k-th on
RECURSIVE index_attributes(_, _, _, _)
index_attributes(attributes, file, k, acc) ==
    IF k > Len(attributes) THEN acc
    ELSE LET attr_name == attributes[k][1]
             normalized_type == normalize_type(attributes[k][2])
         IN  index_attributes(attributes, file, k + 1,
                 [attribute_types |->
                      DictSet(acc.attribute_types, attr_name,
                          DictGetDefault(acc.attribute_types, attr_name, {})
                              \cup {normalized_type}),
                  attribute_files |->
                      DictSet(acc.attribute_files, attr_name,
                          Append(DictGetDefault(acc.attribute_files,
                                                attr_name, <<>>), file))])

\* the outer loop, over classes.items() from the k-th entry on
RECURSIVE index_classes(_, _, _, _)
index_classes(classes, file_map, k, acc) ==
    IF k > Len(classes) THEN acc
    ELSE index_classes(classes, file_map, k + 1,
             index_attributes(classes[k].val,
                              DictGet(file_map, classes[k].key), 1, acc))

SeqRange(s) == {s[k] : k \in 1..Len(s)}

find_inconsistent_attributes(classes, file_map) ==
    LET index == index_classes(classes, file_map, 1,
                     [attribute_types |-> <<>>, attribute_files |-> <<>>])
        Inconsistent(entry) == Cardinality(entry.val) > 1
        several == SelectSeq(index.attribute_types, Inconsistent)
    IN  [inconsistent_attributes |-> {several[k].key : k \in 1..Len(several)},
         inconsistency_summary |->
             [k \in 1..Len(several) |->
                 [key |-> several[k].key,
                  val |-> [types |-> several[k].val,
                           files |-> SeqRange(DictGet(index.attribute_files,
                                                      several[k].key))]]]]

---------------------------------------------------------------------------
(* Values of the variables a specification does not use. *)

NoStr == <<>>
NoError == [exc |-> "none"]

TypesIdle ==
    /\ t_pc = "idle" /\ annotation = OtherNode
    /\ descriptor = NoStr /\ normalized = NoStr

ExtractIdle == x_pc = "idle" /\ x_file = <<>> /\ x_result = <<>>

RunIdle ==
    /\ pc = "idle" /\ folder = <<>> /\ i = 0
    /\ all_classes = <<>> /\ all_base_models = {}
    /\ all_relationships = <<>> /\ class_to_file_map = <<>>
    /\ inconsistent_attributes = {} /\ inconsistency_summary = <<>>
    /\ artifacts = <<>> /\ stdout = <<>> /\ error = NoError

---------------------------------------------------------------------------
(* The resolver and the normalizer applied to one annotation. *)

TypesInit ==
    /\ t_pc = "start"
    /\ annotation \in Annotations(MaxDepth)
    /\ descriptor = NoStr
    /\ normalized = NoStr
    /\ ExtractIdle /\ RunIdle

Resolve ==
    /\ t_pc = "start"
    /\ descriptor' = resolve_type(annotation)
    /\ t_pc' = "resolved"
    /\ UNCHANGED <<annotation, normalized, extract_vars, run_vars>>

Normalize ==
    /\ t_pc = "resolved"
    /\ normalized' = normalize_type(descriptor)
    /\ t_pc' = "normalized"
    /\ UNCHANGED <<annotation, descriptor, extract_vars, run_vars>>

TypesNext == Resolve \/ Normalize

SpecTypes == TypesInit /\ [][TypesNext]_vars

---------------------------------------------------------------------------
(* The file extractor applied to one file. *)

ClassNames == {"A", "Foo"}
FieldNames == {"x", "y"}
ListOf(n) == Subscript(Name("List"), Name(n))
FieldAnnotations == {Name("int"), Name("Foo"), ListOf("Foo")}
Fields == {AnnAssign(n, a) : n \in FieldNames, a \in FieldAnnotations}
BaseLists == {<<>>, <<Name("BaseModel")>>}

\* the class definitions with exactly k annotated fields
ClassDefsWith(k) ==
    {ClassDef(n, b, body) :
        n \in ClassNames, b \in BaseLists, body \in [1..k -> Fields]}

\* the files of at most c top-level classes holding at most f fields in all
RECURSIVE FileTrees(_, _)
FileTrees(c, f) ==
    {<<>>} \cup
    (IF c = 0 THEN {}
     ELSE UNION {{<<cls>> \o rest :
                     cls \in ClassDefsWith(k), rest \in FileTrees(c-1, f-k)} :
                 k \in 0..f})

ExtractPath == [dir |-> "models", stem |-> "m"]

ExtractInit ==
    /\ x_pc = "start"
    /\ x_file \in FileTrees(MaxClasses, MaxFields)
    /\ x_result = <<>>
    /\ TypesIdle /\ RunIdle

\* the file parses: the call returns its four results
Extract ==
    /\ x_pc = "start"
    /\ x_result' = extract_classes_with_nested_models(ExtractPath, x_file)
    /\ x_pc' = "extracted"
    /\ UNCHANGED <<x_file, type_vars, run_vars>>

\* ast.parse raises: nothing is returned
ExtractRaises ==
    /\ x_pc = "start"
    /\ x_pc' = "raised"
    /\ UNCHANGED <<x_file, x_result, type_vars, run_vars>>

ExtractNext == Extract \/ ExtractRaises

SpecExtract == ExtractInit /\ [][ExtractNext]_vars

---------------------------------------------------------------------------
(* One run of the program over a folder. *)

RootDir == "models"
SubDir == "models/sub"
Dirs == {RootDir, SubDir}
Stems == {"m", "n"}
\* the .py files under the root; files of another suffix are skipped by
\* both walks
Paths == [dir : Dirs, stem : Stems]

RunFields ==
    {AnnAssign("x", Name("int")), AnnAssign("x", Name("Foo")),
     AnnAssign("x", ListOf("Foo")), AnnAssign("y", Name("int"))}
RunClassDefs ==
    {ClassDef(n, <<Name("BaseModel")>>, body) :
        n \in ClassNames, body \in {<<>>} \cup {<<f>> : f \in RunFields}}
RunTrees == {<<>>} \cup {<<c>> : c \in RunClassDefs}

\* os.walk is top-down: the files of the root come before those of a
\* sub-directory; within a directory the order is the file system's
WalkOrder(fs) ==
    /\ \A a, b \in 1..Len(fs) : a # b => fs[a].path # fs[b].path
    /\ \A a, b \in 1..Len(fs) :
          a < b => ~(fs[a].path.dir = SubDir /\ fs[b].path.dir = RootDir)

Folders ==
    UNION {{fs \in [1..n -> [path : Paths, tree : RunTrees]] : WalkOrder(fs)} :
           n \in 0..MaxFiles}

ArgCounts == {1, 2, 3}

Init ==
    /\ pc = "start"
    /\ folder \in Folders
    /\ i = 0
    /\ all_classes = <<>> /\ all_base_models = {}
    /\ all_relationships = <<>> /\ class_to_file_map = <<>>
    /\ inconsistent_attributes = {} /\ inconsistency_summary = <<>>
    /\ artifacts = <<>> /\ stdout = <<>> /\ error = NoError
    /\ TypesIdle /\ ExtractIdle

analysis_vars == <<all_classes, all_base_models, all_relationships,
                   class_to_file_map>>
summary_vars == <<inconsistent_attributes, inconsistency_summary>>

\* the argument check
Start ==
    /\ pc = "start"
    /\ \E argc \in ArgCounts :
          IF argc # 2
          THEN /\ pc' = "exit"
               /\ stdout' = Append(stdout, [text |-> "Usage"])
               /\ i' = i
          ELSE /\ pc' = "analyze"
               /\ i' = 1
               /\ stdout' = stdout
    /\ UNCHANGED <<folder, analysis_vars, summary_vars, artifacts, error,
                   type_vars, extract_vars>>

\* analyze_models_folder: one file is extracted and merged
AnalyzeFile ==
    /\ pc = "analyze" /\ i <= Len(folder)
    /\ LET got == extract_classes_with_nested_models(folder[i].path,
                                                     folder[i].tree)
       IN  /\ all_classes' = DictUpdate(all_classes, got.classes)
           /\ all_base_models' = all_base_models \cup got.base_models
           /\ all_relationships' =
                  all_relationships \o got.nested_relationships
           /\ class_to_file_map' =
                  DictUpdate(class_to_file_map, got.file_to_class_map)
    /\ i' = i + 1
    /\ UNCHANGED <<pc, folder, summary_vars, artifacts, stdout, error,
                   type_vars, extract_vars>>

\* analyze_models_folder: ast.parse raises on a file; nothing catches it
AnalyzeFileRaises ==
    /\ pc = "analyze" /\ i <= Len(folder)
    /\ pc' = "crashed"
    /\ error' = [exc |-> "SyntaxError",
                 at |-> "extract_classes_with_nested_models",
                 file |-> folder[i].path]
    /\ UNCHANGED <<folder, i, analysis_vars, summary_vars, artifacts, stdout,
                   type_vars, extract_vars>>

\* every file is merged: the inconsistent attributes are computed
FindInconsistent ==
    /\ pc = "analyze" /\ i > Len(folder)
    /\ LET found == find_inconsistent_attributes(all_classes,
                                                 class_to_file_map)
       IN  /\ inconsistent_attributes' = found.inconsistent_attributes
           /\ inconsistency_summary' = found.inconsistency_summary
    /\ pc' = "report"
    /\ UNCHANGED <<folder, i, analysis_vars, artifacts, stdout, error,
                   type_vars, extract_vars>>

ReportFile == <<"inconsistencies_report", ".html">>
FolderDiagramFile == <<"folder_model_diagram", ".png">>
\* os.path.splitext(os.path.basename(file_path))[0] after "python_"
FileDiagramFile(path) == <<"python_", path.stem, ".png">>

\* save_html_report
SaveReport ==
    /\ pc = "report"
    /\ \E template_exists \in BOOLEAN :
          IF template_exists
          THEN /\ artifacts' = DictSet(artifacts, ReportFile,
                                       [of |-> "summary"])
               /\ stdout' = Append(stdout, [text |-> "HTML report saved"])
          ELSE /\ artifacts' = artifacts
               /\ stdout' = Append(stdout,
                                   [text |-> "Template file not found"])
    /\ pc' = "folder_diagram"
    /\ UNCHANGED <<folder, i, analysis_vars, summary_vars, error,
                   type_vars, extract_vars>>

\* generate_inconsistent_model_diagram: the backend renders the graph
FolderDiagram ==
    /\ pc = "folder_diagram"
    /\ artifacts' = DictSet(artifacts, FolderDiagramFile, [of |-> "folder"])
    /\ stdout' = Append(stdout, [text |-> "Folder-wide diagram saved"])
    /\ pc' = "file_diagrams"
    /\ i' = 1
    /\ UNCHANGED <<folder, analysis_vars, summary_vars, error,
                   type_vars, extract_vars>>

\* generate_inconsistent_model_diagram: dot.render raises; nothing catches it
FolderDiagramRaises ==
    /\ pc = "folder_diagram"
    /\ pc' = "crashed"
    /\ error' = [exc |-> "RenderError",
                 at |-> "generate_inconsistent_model_diagram"]
    /\ UNCHANGED <<folder, i, analysis_vars, summary_vars, artifacts, stdout,
                   type_vars, extract_vars>>

DiagramOutcomes == {"rendered", "SyntaxError", "RenderError"}

\* generate_python_file_diagram with ast.parse outside the try block
FileDiagramParseUncaught ==
    /\ pc = "file_diagrams" /\ i <= Len(folder)
    /\ \E outcome \in DiagramOutcomes :
          IF outcome = "rendered"
          THEN /\ artifacts' = DictSet(artifacts,
                                       FileDiagramFile(folder[i].path),
                                       [of |-> "file", path |-> folder[i].path])
               /\ stdout' = Append(stdout,
                      [text |-> "Python file structure diagram saved",
                       file |-> folder[i].path])
               /\ i' = i + 1
               /\ UNCHANGED <<pc, error>>
          ELSE IF outcome = "SyntaxError"
          THEN /\ pc' = "crashed"
               /\ error' = [exc |-> "SyntaxError",
                            at |-> "generate_python_file_diagram",
                            file |-> folder[i].path]
               /\ UNCHANGED <<artifacts, stdout, i>>
          ELSE /\ artifacts' = artifacts
               /\ stdout' = Append(stdout,
                      [text |-> "Error generating diagram",
                       file |-> folder[i].path, exc |-> outcome])
               /\ i' = i + 1
               /\ UNCHANGED <<pc, error>>
    /\ UNCHANGED <<folder, analysis_vars, summary_vars,
                   type_vars, extract_vars>>

\* generate_python_file_diagram on the next file of the second walk; an
\* exception of ast.parse or of dot.render is caught and printed
FileDiagram ==
    /\ pc = "file_diagrams" /\ i <= Len(folder)
    /\ \E outcome \in DiagramOutcomes :
          IF outcome = "rendered"
          THEN /\ artifacts' = DictSet(artifacts,
                                       FileDiagramFile(folder[i].path),
                                       [of |-> "file", path |-> folder[i].path])
               /\ stdout' = Append(stdout,
                      [text |-> "Python file structure diagram saved",
                       file |-> folder[i].path])
          ELSE /\ artifacts' = artifacts
               /\ stdout' = Append(stdout,
                      [text |-> "Error generating diagram",
                       file |-> folder[i].path, exc |-> outcome])
    /\ i' = i + 1
    /\ UNCHANGED <<pc, folder, analysis_vars, summary_vars, error,
                   type_vars, extract_vars>>

\* the second walk is exhausted: the program ends
Finish ==
    /\ pc = "file_diagrams" /\ i > Len(folder)
    /\ pc' = "done"
    /\ UNCHANGED <<folder, i, analysis_vars, summary_vars, artifacts, stdout,
                   error, type_vars, extract_vars>>

Next ==
    \/ Start
    \/ AnalyzeFile
    \/ AnalyzeFileRaises
    \/ FindInconsistent
    \/ SaveReport
    \/ FolderDiagram
    \/ FolderDiagramRaises
    \/ FileDiagram
    \/ Finish

Spec == Init /\ [][Next]_vars

---------------------------------------------------------------------------
(* Properties of the type resolver and the normalizer (SpecTypes). *)

FirstIndex(s, tok) ==
    CHOOSE k \in 1..Len(s) : s[k] = tok /\ \A m \in 1..(k-1) : s[m] # tok
LastIndex(s, tok) ==
    CHOOSE k \in 1..Len(s) : s[k] = tok /\ \A m \in (k+1)..Len(s) : s[m] # tok

\* the text of d between its first "[" and its last "]"
BetweenBrackets(d) ==
    SubSeq(d, FirstIndex(d, "[") + 1, LastIndex(d, "]") - 1)

\* C3: normalize_type returns a descriptor without "[" unchanged and
\* otherwise exactly the text between its first "[" and its last "]".
C3_NormalizeStripsOuterWrapper ==
    t_pc = "normalized" =>
        normalized = IF Contains(descriptor, "[")
                     THEN BetweenBrackets(descriptor)
                     ELSE descriptor

\* a string of the descriptor grammar: an identifier, or Outer[descriptor]
RECURSIVE WellFormed(_)
WellFormed(d) ==
    \/ Len(d) = 1 /\ d[1] \notin {"[", "]"}
    \/ /\ Len(d) >= 4
       /\ d[1] \in Containers /\ d[2] = "[" /\ d[Len(d)] = "]"
       /\ WellFormed(SubSeq(d, 3, Len(d) - 1))

\* the subscripts the resolver handles: a recognised container around a
\* name, a further subscript or a qualified name
Handled(a) ==
    /\ a.value.kind = "Name" /\ a.value.id \in Containers
    /\ a.slice.kind \in {"Name", "Subscript", "Attribute"}

\* C4: resolve_type is total; it yields the bare name, the trailing
\* attribute name, Outer[Inner] with Outer in {List, Optional, Dict}, the
\* sentinel ComplexType for every other subscript, and the sentinel Unknown
\* for every other annotation.
C4_ResolveTotal ==
    t_pc \in {"resolved", "normalized"} =>
        /\ WellFormed(descriptor)
        /\ annotation.kind = "Name" => descriptor = <<annotation.id>>
        /\ annotation.kind = "Attribute" => descriptor = <<annotation.attr>>
        /\ (annotation.kind = "Subscript" /\ Handled(annotation)) =>
               /\ Len(descriptor) >= 4
               /\ descriptor[1] = annotation.value.id
               /\ descriptor[2] = "["
               /\ descriptor[Len(descriptor)] = "]"
        /\ (annotation.kind = "Subscript" /\ ~Handled(annotation)) =>
               descriptor = <<"ComplexType">>
        /\ annotation.kind \notin {"Name", "Attribute", "Subscript"} =>
               descriptor = <<"Unknown">>

\* a container around a container around a qualified name has resolved
C4_Witness ==
    /\ t_pc = "resolved"
    /\ annotation = Subscript(Name("List"),
                              Subscript(Name("Optional"), Attribute("Foo")))
    /\ descriptor = <<"List", "[", "Optional", "[", "Foo", "]", "]">>

---------------------------------------------------------------------------
(* Properties of the file extractor (SpecExtract). *)

\* the names of the top-level classes of the extracted file
TopLevelClasses == {x_file[k].name : k \in 1..Len(x_file)}

IsListOfName(t) == Len(t) = 4 /\ t[1] = "List" /\ t[2] = "[" /\ t[4] = "]"

\* the nested relationships whose source is class c
ReferencesFrom(c) ==
    LET From(r) == r[1] = c
    IN  SelectSeq(x_result.nested_relationships, From)

\* the fields of the attribute sequence attrs that are marked nested
NestedFields(attrs) ==
    LET Marked(f) == f[3]
    IN  SelectSeq(attrs, Marked)

\* C2: a field of type List[Foo] is marked nested and emits exactly one
\* NestedReference when Foo is a top-level class of the file, and is not
\* marked and emits none when the file defines no class Foo; so every
\* NestedReference targets a class of the file.
C2_NestedOnlyForLocalClasses ==
    x_pc = "extracted" =>
        /\ \A c \in 1..Len(x_result.classes) :
              LET attrs == x_result.classes[c].val
              IN  /\ \A k \in 1..Len(attrs) :
                        IsListOfName(attrs[k][2]) =>
                            (attrs[k][3] <=> attrs[k][2][3] \in TopLevelClasses)
                  /\ Len(ReferencesFrom(x_result.classes[c].key))
                         = Len(NestedFields(attrs))
        /\ \A r \in 1..Len(x_result.nested_relationships) :
              x_result.nested_relationships[r][3]
                  \in {<<n>> : n \in TopLevelClasses}

\* C8: within every extracted ClassRecord no two FieldRecords share a name.
C8_FieldNamesUnique ==
    x_pc = "extracted" =>
        \A c \in 1..Len(x_result.classes) :
            LET attrs == x_result.classes[c].val
            IN  \A a, b \in 1..Len(attrs) : a # b => attrs[a][1] # attrs[b][1]

---------------------------------------------------------------------------
(* Properties of a run (Spec). *)

\* the number of files analyze_models_folder has merged
Merged ==
    IF pc \in {"start", "exit"} THEN 0
    ELSE IF pc = "analyze" \/ (pc = "crashed" /\ error.exc = "SyntaxError")
    THEN i - 1
    ELSE Len(folder)

DefinedIn(k) == {folder[k].tree[j].name : j \in 1..Len(folder[k].tree)}

\* the last merged file that defines class n
LastFile(n) ==
    CHOOSE k \in 1..Merged :
        n \in DefinedIn(k) /\ \A m \in (k+1)..Merged : n \notin DefinedIn(m)

\* C5: after any sequence of merges the class table holds, for every class
\* name defined in a merged file, the fields of the last merged file that
\* defines it, the class-to-file map holds that file's path, and the two
\* maps have the same keys.
C5_LastFileWins ==
    /\ DictKeys(all_classes) = DictKeys(class_to_file_map)
    /\ DictKeys(all_classes) = UNION {DefinedIn(k) : k \in 1..Merged}
    /\ \A n \in DictKeys(all_classes) :
          LET last == folder[LastFile(n)]
          IN  /\ DictGet(all_classes, n) =
                    DictGet(extract_classes_with_nested_models(
                                last.path, last.tree).classes, n)
              /\ DictGet(class_to_file_map, n) = last.path

\* two merged files define class A with different fields
C5_Witness ==
    /\ pc = "report"
    /\ Len(folder) = 2
    /\ "A" \in DefinedIn(1) /\ "A" \in DefinedIn(2)
    /\ DictGet(all_classes, "A") # <<>>
    /\ DictGet(all_classes, "A") #
           DictGet(extract_classes_with_nested_models(
                       folder[1].path, folder[1].tree).classes, "A")
    /\ DictGet(class_to_file_map, "A") = folder[2].path

\* the (class, field) pairs of the aggregated class table
AttributeNames ==
    UNION {{all_classes[c].val[k][1] : k \in 1..Len(all_classes[c].val)} :
           c \in 1..Len(all_classes)}

\* the normalized types observed for attribute name n over all pairs
ObservedTypes(n) ==
    UNION {{normalize_type(all_classes[c].val[k][2]) :
               k \in {j \in 1..Len(all_classes[c].val) :
                          all_classes[c].val[j][1] = n}} :
           c \in 1..Len(all_classes)}

SummaryComputed ==
    \/ pc \in {"report", "folder_diagram", "file_diagrams", "done"}
    \/ pc = "crashed" /\ error.exc = "RenderError"

\* C1: the summary holds an attribute name iff at least two normalized
\* types are observed for it over all (class, field) pairs, lists exactly
\* those types, and the inconsistent-name set is the summary's key set.
C1_SummaryExact ==
    SummaryComputed =>
        /\ DictKeys(inconsistency_summary) =
               {n \in AttributeNames : Cardinality(ObservedTypes(n)) >= 2}
        /\ \A n \in DictKeys(inconsistency_summary) :
               DictGet(inconsistency_summary, n).types = ObservedTypes(n)
        /\ inconsistent_attributes = DictKeys(inconsistency_summary)

\* x is int in one class and Foo, inside a List, in another
C1_Witness ==
    /\ pc = "report"
    /\ "x" \in inconsistent_attributes
    /\ DictGet(inconsistency_summary, "x").types = {<<"int">>, <<"Foo">>}
    /\ \E c \in 1..Len(all_classes) :
          \E k \in 1..Len(all_classes[c].val) :
              all_classes[c].val[k][2] = <<"List", "[", "Foo", "]">>

\* the lines the per-file diagram steps have printed, one per attempt
IsFileDiagramLine(line) ==
    line.text \in {"Python file structure diagram saved",
                   "Error generating diagram"}
FileDiagramLines == SelectSeq(stdout, IsFileDiagramLine)

\* the positions of the per-file diagrams among the artifacts
PerFileDiagrams ==
    {k \in 1..Len(artifacts) : artifacts[k].val.of = "file"}

\* C6: a parse failure during extraction aborts the run with no report and
\* no diagram; a parse failure in the per-file diagram step of a file skips
\* only that file's diagram, with a message, and the step is still
\* attempted for every other file.
C6_ParseFailureIsolation ==
    /\ (pc = "crashed" /\ error.exc = "SyntaxError") =>
           /\ error.at = "extract_classes_with_nested_models"
           /\ artifacts = <<>> /\ stdout = <<>>
    /\ pc \in {"file_diagrams", "done"} =>
           /\ Len(FileDiagramLines) = (IF pc = "done" THEN Len(folder) ELSE i - 1)
           /\ \A k \in 1..Len(FileDiagramLines) :
                 /\ FileDiagramLines[k].file = folder[k].path
                 /\ FileDiagramLines[k].text = "Error generating diagram" =>
                        FileDiagramLines[k].exc \in {"SyntaxError", "RenderError"}
           \* a per-file diagram exists exactly for the attempts that rendered
           /\ {artifacts[a].key : a \in PerFileDiagrams} =
                  {FileDiagramFile(folder[k].path) :
                      k \in {j \in 1..Len(FileDiagramLines) :
                                 FileDiagramLines[j].text =
                                     "Python file structure diagram saved"}}

\* the first file's diagram step failed to parse it and the second file's
\* diagram was rendered all the same
C6_Witness ==
    /\ pc = "done"
    /\ Len(folder) = 2
    /\ FileDiagramLines[1].text = "Error generating diagram"
    /\ FileDiagramLines[1].exc = "SyntaxError"
    /\ FileDiagramLines[2].text = "Python file structure diagram saved"
    /\ DictKeys(artifacts) =
           {FolderDiagramFile, FileDiagramFile(folder[2].path)}

\* C7: a rendering failure at any diagram step, the folder-wide one
\* included, is reported and never aborts the run.
C7_RenderFailureNeverAborts ==
    ~(pc = "crashed" /\ error.exc = "RenderError")

\* every step of the run succeeded
AllStepsSucceeded ==
    /\ pc = "done"
    /\ ReportFile \in DictKeys(artifacts)
    /\ \A k \in 1..Len(FileDiagramLines) :
          FileDiagramLines[k].text = "Python file structure diagram saved"

\* C9: after a run in which every step succeeds over N files there are N
\* distinct per-file diagrams, none overwritten by that of another file.
C9_OneDiagramPerFile ==
    AllStepsSucceeded =>
        /\ Cardinality(PerFileDiagrams) = Len(folder)
        /\ \A k \in 1..Len(folder) :
              DictGet(artifacts, FileDiagramFile(folder[k].path)).path
                  = folder[k].path

\* C10: every aggregated NestedReference (C, f, T) describes the retained
\* definition of C: its record has a field named f marked nested.
C10_ReferencesDescribeRetainedClass ==
    \A r \in 1..Len(all_relationships) :
        LET ref == all_relationships[r]
        IN  /\ ref[1] \in DictKeys(all_classes)
            /\ \E k \in 1..Len(DictGet(all_classes, ref[1])) :
                  /\ DictGet(all_classes, ref[1])[k][1] = ref[2]
                  /\ DictGet(all_classes, ref[1])[k][3]

===========================================================================
